---- MODULE Spec2Model ----
\* Model of the soil-sensor background worker (worker.py, main.py):
\* the lifecycle controller (start_worker / stop_worker), the listener
\* thread (start_listener), the change callback (on_snapshot) and the
\* document processor (process_document), over a document store with a
\* raw and a calibrated collection.
EXTENDS Integers, Sequences, FiniteSets, TLC

\* ------------------------------------------------------------------ bounds
MaxDocs == 2        \* raw documents ever inserted
MaxTs == 2          \* timestamps 1..MaxTs
MaxListeners == 2   \* listener threads ever spawned
MaxQueue == 1       \* change batches queued on one subscription
MaxCount == 2       \* cap of the history counters
MaxCrashes == 1     \* process restarts

None == 0
DocIds == 1..MaxDocs
Timestamps == 1..MaxTs
Listeners == 1..MaxListeners

Min(a, b) == IF a < b THEN a ELSE b
Bump(n) == Min(n + 1, MaxCount)

VARIABLES
    raw,                        \* RAW_COLLECTION: doc id -> document
    calibrated,                 \* CALIBRATED_COLLECTION: doc id -> exists
    last_processed_doc_id,      \* worker.py:58
    initial_snapshot_received,  \* worker.py:60
    processing_lock,            \* worker.py:59: None or the holding callback
    running,                    \* worker.py:322
    status,                     \* last value returned by start_worker/stop_worker
    listener,                   \* listener threads: pc and local baseline_doc
    pending,                    \* batches queued on each thread's subscription
    handler,                    \* the on_snapshot invocation of each subscription
    audit,                      \* history: per document counters
    obs                         \* history: per run observations

vars == <<raw, calibrated, last_processed_doc_id, initial_snapshot_received,
          processing_lock, running, status, listener, pending, handler,
          audit, obs>>

store == <<raw, calibrated>>
globals == <<last_processed_doc_id, initial_snapshot_received, processing_lock>>

\* ------------------------------------------------------------------ store
\* A raw document: ts = 0 means the id is not in the collection; fields says
\* whether all of N, P, K, pH, Conductivity are present.
NoDoc == [ts |-> 0, fields |-> FALSE, processed |-> FALSE]
Present(d) == raw[d].ts > 0
PresentDocs == {d \in DocIds : Present(d)}

\* The query with the order reversed: the oldest document.
LatestDocAscending ==
    IF PresentDocs = {} THEN None
    ELSE CHOOSE d \in PresentDocs : \A e \in PresentDocs : raw[e].ts >= raw[d].ts

\* order_by('timestamp', DESCENDING).limit(1) on the raw collection
LatestDoc ==
    IF PresentDocs = {} THEN None
    ELSE CHOOSE d \in PresentDocs : \A e \in PresentDocs : raw[e].ts <= raw[d].ts

\* Whether store and model calls may raise in this run.
Faulty == obs.faults
Raises == IF Faulty THEN {None} ELSE {}

\* The query without the order: any document of the collection.
get_latest_document_by_timestamp_unordered == PresentDocs \cup Raises

\* get_latest_document_by_timestamp: the latest document, or None when the
\* collection is empty or the query raised.
get_latest_document_by_timestamp == {LatestDoc} \cup Raises

\* get_current_latest_document: same query, same None on error.
get_current_latest_document == {LatestDoc} \cup Raises

\* prepare_input without the check of the required channels.
prepare_input_unchecked(data) == "ok"

\* prepare_input: raises KeyError when a required channel is missing.
prepare_input(data) == IF data.fields THEN "ok" ELSE "KeyError"

\* ------------------------------------------------------------------ state
IdleHandler == [pc |-> "idle", doc_id |-> None,
                data |-> [fields |-> FALSE, processed |-> FALSE], stopped |-> FALSE]
Unborn == [pc |-> "unborn", baseline_doc |-> None]
Gone == [pc |-> "gone", baseline_doc |-> None]
NoAudit == [called |-> FALSE, oks |-> 0, writes |-> 0, marks |-> 0]
FreshRun == [first |-> [s \in Listeners |-> "none"],
             attached_once |-> FALSE, preexisting |-> {},
             order |-> <<>>]

Init ==
    /\ raw = [d \in DocIds |-> NoDoc]
    /\ calibrated = [d \in DocIds |-> FALSE]
    /\ last_processed_doc_id = None
    /\ initial_snapshot_received = FALSE
    /\ processing_lock = None
    /\ running = FALSE
    /\ status = "none"
    /\ listener = [s \in Listeners |-> Unborn]
    /\ pending = [s \in Listeners |-> 0]
    /\ handler = [s \in Listeners |-> IdleHandler]
    /\ audit = [d \in DocIds |-> NoAudit]
    /\ obs = [run |-> FreshRun, late_discard |-> FALSE, handed_pre |-> FALSE,
              out_of_order |-> FALSE, unlocked |-> {}, crashes |-> 0,
              faults |-> TRUE]

Attached(s) == listener[s].pc = "attached"

\* What one change in the raw collection does to a subscription's queue: a new
\* batch, or (when a batch is still queued) one more change in that batch.
Notified(s) ==
    IF ~Attached(s) THEN {pending[s]}
    ELSE (IF pending[s] < MaxQueue THEN {pending[s] + 1} ELSE {})
         \cup (IF pending[s] > 0 THEN {pending[s]} ELSE {})

Notify == \E q \in [Listeners -> 0..MaxQueue] :
    /\ \A s \in Listeners : q[s] \in Notified(s)
    /\ pending' = q

\* ------------------------------------------------------------------ environment
\* Where the lifecycle stands: start_worker not yet called in this process,
\* called and Running, or called and Stopped again.
Lifecycle ==
    IF \A s \in Listeners : listener[s].pc \in {"unborn", "gone"} THEN "before_start"
    ELSE IF running THEN "running" ELSE "stopped"

\* The ingestion path inserts a new raw document (processed unset).
Insert(d, t, f) ==
    /\ ~Present(d)
    /\ \A e \in DocIds : e < d => Present(e)
    /\ \A e \in DocIds : raw[e].ts # t
    /\ raw' = [raw EXCEPT ![d] = [ts |-> t, fields |-> f, processed |-> FALSE]]
    /\ Notify
    /\ UNCHANGED <<calibrated, globals, running, status, listener, handler, audit, obs>>

\* An unrelated field of an existing raw document is updated.
Touch(d) ==
    /\ Present(d)
    /\ \E s \in Listeners : Attached(s)
    /\ Notify
    /\ UNCHANGED <<store, globals, running, status, listener, handler, audit, obs>>

\* The process dies and is started again: module-level state is re-initialised,
\* its threads and subscriptions are gone, the store is kept.
Crash ==
    /\ obs.crashes < MaxCrashes
    /\ \E s \in Listeners : listener[s].pc \notin {"unborn", "gone"}
    /\ \E s \in Listeners : listener[s].pc = "unborn"
    /\ last_processed_doc_id' = None
    /\ initial_snapshot_received' = FALSE
    /\ processing_lock' = None
    /\ running' = FALSE
    /\ status' = "none"
    /\ listener' = [s \in Listeners |->
                      IF listener[s].pc = "unborn" THEN Unborn ELSE Gone]
    /\ pending' = [s \in Listeners |-> 0]
    /\ handler' = [s \in Listeners |-> IdleHandler]
    /\ obs' = [obs EXCEPT !.run = FreshRun, !.crashes = @ + 1]
    /\ UNCHANGED <<store, audit>>

\* ------------------------------------------------------------------ lifecycle
Spawned == {s \in Listeners : listener[s].pc # "unborn"}

\* start_worker without the check of the running flag.
start_worker_unchecked ==
    /\ \E s \in Listeners :
         /\ listener[s].pc = "unborn"
         /\ \A r \in Listeners : r < s => listener[r].pc # "unborn"
         /\ listener' = [listener EXCEPT ![s].pc = "baseline"]
    /\ running' = TRUE
    /\ status' = "Worker started"
    /\ UNCHANGED <<store, globals, pending, handler, audit, obs>>

\* worker.py:324-335
start_worker ==
    IF running
    THEN /\ status' = "Worker already running"
         /\ UNCHANGED <<store, globals, running, listener, pending, handler, audit, obs>>
    ELSE /\ \E s \in Listeners :
              /\ listener[s].pc = "unborn"
              /\ \A r \in Listeners : r < s => listener[r].pc # "unborn"
              /\ listener' = [listener EXCEPT ![s].pc = "baseline"]
         /\ running' = TRUE
         /\ status' = "Worker started"
         /\ UNCHANGED <<store, globals, pending, handler, audit, obs>>

\* stop_worker that also detaches the subscriptions and ends their threads.
stop_worker_detaching ==
    /\ running' = FALSE
    /\ status' = "Worker stopping"
    /\ listener' = [s \in Listeners |->
                      IF Attached(s) THEN [listener[s] EXCEPT !.pc = "dead"]
                      ELSE listener[s]]
    /\ pending' = [s \in Listeners |-> 0]
    /\ UNCHANGED <<store, globals, handler, audit, obs>>

\* worker.py:337-342
stop_worker ==
    /\ running' = FALSE
    /\ status' = "Worker stopping"
    /\ UNCHANGED <<store, globals, listener, pending, handler, audit, obs>>

\* ------------------------------------------------------------------ start_listener
\* worker.py:283: baseline_doc = get_current_latest_document()
QueryBaseline(s) ==
    /\ listener[s].pc = "baseline"
    /\ \E b \in get_current_latest_document :
         listener' = [listener EXCEPT ![s] = [pc |-> "set_baseline", baseline_doc |-> b]]
    /\ UNCHANGED <<store, globals, running, status, pending, handler, audit, obs>>

\* worker.py:284-292: if baseline_doc: last_processed_doc_id = baseline_doc.id
SetBaseline(s) ==
    /\ listener[s].pc = "set_baseline"
    /\ listener' = [listener EXCEPT ![s].pc = "attach"]
    /\ IF listener[s].baseline_doc # None
       THEN /\ last_processed_doc_id' = listener[s].baseline_doc
            /\ obs' = [obs EXCEPT !.unlocked = @ \cup {"start_listener"}]
       ELSE UNCHANGED <<last_processed_doc_id, obs>>
    /\ UNCHANGED <<store, initial_snapshot_received, processing_lock, running, status,
                   pending, handler, audit>>

\* worker.py:304: doc_watch = collection_ref.on_snapshot(on_snapshot); the
\* store queues the initial snapshot as the subscription's first batch.
Attach(s) ==
    /\ listener[s].pc = "attach"
    /\ listener' = [listener EXCEPT ![s].pc = "attached"]
    /\ pending' = [pending EXCEPT ![s] = 1]
    /\ obs' = [obs EXCEPT !.run.attached_once = TRUE,
                          !.run.preexisting =
                              IF obs.run.attached_once THEN @ ELSE PresentDocs]
    /\ UNCHANGED <<store, globals, running, status, handler, audit>>

\* worker.py:304 raises: the thread ends, nothing else is touched.
AttachFails(s) ==
    /\ listener[s].pc = "attach"
    /\ listener' = [listener EXCEPT ![s].pc = "dead"]
    /\ UNCHANGED <<store, globals, running, status, pending, handler, audit, obs>>

\* ------------------------------------------------------------------ on_snapshot
Remove(q, s) == SelectSeq(q, LAMBDA x : x # s)

\* The store client calls on_snapshot with the subscription's next batch (one
\* call at a time per subscription); worker.py:204 reads the flag.
Deliver(s) ==
    /\ Attached(s)
    /\ pending[s] > 0
    /\ handler[s].pc = "idle"
    /\ pending' = [pending EXCEPT ![s] = @ - 1]
    /\ IF ~initial_snapshot_received
       THEN /\ handler' = [handler EXCEPT ![s].pc = "skip_initial",
                                           ![s].stopped = ~running]
            /\ obs' = [obs EXCEPT
                  !.run.first[s] = IF @ = "none" THEN "discarded" ELSE @,
                  !.late_discard = @ \/ obs.run.first[s] # "none"]
       ELSE /\ handler' = [handler EXCEPT ![s].pc = "wait_lock",
                                           ![s].stopped = ~running]
            /\ obs' = [obs EXCEPT
                  !.run.first[s] = IF @ = "none" THEN "handled" ELSE @,
                  !.run.order = Append(@, s)]
    /\ UNCHANGED <<store, globals, running, status, listener, audit>>

\* worker.py:205-208: initial_snapshot_received = True; return
SkipInitial(s) ==
    /\ handler[s].pc = "skip_initial"
    /\ initial_snapshot_received' = TRUE
    /\ handler' = [handler EXCEPT ![s] = IdleHandler]
    /\ obs' = [obs EXCEPT !.unlocked =
                  IF processing_lock = s THEN @ ELSE @ \cup {"on_snapshot_initial"}]
    /\ UNCHANGED <<store, last_processed_doc_id, processing_lock, running, status,
                   listener, pending, audit>>

\* A callback that takes the critical section without waiting for the lock.
AcquireLockUnguarded(s) ==
    /\ handler[s].pc = "wait_lock"
    /\ processing_lock' = s
    /\ handler' = [handler EXCEPT ![s].pc = "query"]
    /\ obs' = [obs EXCEPT !.run.order = Remove(@, s),
                          !.out_of_order = @ \/ Head(obs.run.order) # s]
    /\ UNCHANGED <<store, last_processed_doc_id, initial_snapshot_received, running,
                   status, listener, pending, audit>>

\* A callback that enters the body without taking the lock at all.
AcquireLockSkipped(s) ==
    /\ handler[s].pc = "wait_lock"
    /\ handler' = [handler EXCEPT ![s].pc = "query"]
    /\ obs' = [obs EXCEPT !.run.order = Remove(@, s),
                          !.out_of_order = @ \/ Head(obs.run.order) # s]
    /\ UNCHANGED <<store, globals, running, status, listener, pending, audit>>

\* worker.py:211: with processing_lock:
AcquireLock(s) ==
    /\ handler[s].pc = "wait_lock"
    /\ processing_lock = None
    /\ processing_lock' = s
    /\ handler' = [handler EXCEPT ![s].pc = "query"]
    /\ obs' = [obs EXCEPT !.run.order = Remove(@, s),
                          !.out_of_order = @ \/ Head(obs.run.order) # s]
    /\ UNCHANGED <<store, last_processed_doc_id, initial_snapshot_received, running,
                   status, listener, pending, audit>>

\* A callback that returns without releasing the lock.
LeaveHoldingLock(s) ==
    /\ processing_lock' = processing_lock
    /\ handler' = [handler EXCEPT ![s] = IdleHandler]

\* The end of on_snapshot: the with block is left (worker.py:249), the lock
\* is released and the callback returns.
Leave(s) ==
    /\ processing_lock' = None
    /\ handler' = [handler EXCEPT ![s] = IdleHandler]

\* worker.py:226-230: latest_doc = get_latest_document_by_timestamp(); with no
\* document (empty collection or failed query) the callback ends.
QueryLatest(s) ==
    /\ handler[s].pc = "query"
    /\ \E d \in get_latest_document_by_timestamp :
         IF d = None
         THEN Leave(s)
         ELSE /\ handler' = [handler EXCEPT ![s] =
                    [@ EXCEPT !.pc = "compare", !.doc_id = d,
                              !.data = [fields |-> raw[d].fields,
                                        processed |-> raw[d].processed]]]
              /\ UNCHANGED processing_lock
    /\ UNCHANGED <<store, last_processed_doc_id, initial_snapshot_received, running,
                   status, listener, pending, audit, obs>>

\* ------------------------------------------------------------------ process_document
\* The guards without guard A (the existence read in the calibrated collection).
process_guards_noA(d, data) ==
    {"error"} \cup
    (IF data.processed THEN {"skip"}
     ELSE IF prepare_input(data) = "KeyError" THEN {"invalid"}
     ELSE {"go", "error"})

\* The guards without either idempotency guard.
process_guards_unguarded(d, data) ==
    {"error"} \cup
    (IF prepare_input(data) = "KeyError" THEN {"invalid"} ELSE {"go", "error"})

\* worker.py:106-119, the part before the writes: the outcomes of guard A
\* (the existence read may raise), guard B, prepare_input and model.predict.
process_guards(d, data) ==
    (IF Faulty THEN {"error"} ELSE {}) \cup
    (IF calibrated[d] THEN {"skip"}
     ELSE IF data.processed THEN {"skip"}
     ELSE IF prepare_input(data) = "KeyError" THEN {"invalid"}
     ELSE {"go"} \cup (IF Faulty THEN {"error"} ELSE {}))

\* process_document returns False (res: "skip" for a guard, "fail" for an
\* exception); on_snapshot leaves last_processed_doc_id alone and ends.
Returned(s, res) ==
    /\ Leave(s)
    /\ res \in {"skip", "fail"}
    /\ audit' = [audit EXCEPT ![handler[s].doc_id].called = TRUE]

\* worker.py:237-247 and 103-119: if doc_id != last_processed_doc_id the
\* document is handed to process_document, which runs up to the first write.
Compare(s) ==
    /\ handler[s].pc = "compare"
    /\ LET d == handler[s].doc_id IN
       IF d # last_processed_doc_id
       THEN /\ obs' = [obs EXCEPT !.handed_pre = @ \/ d \in obs.run.preexisting]
            /\ \E o \in process_guards(d, handler[s].data) :
                 IF o = "go"
                 THEN /\ handler' = [handler EXCEPT ![s].pc = "set"]
                      /\ UNCHANGED <<processing_lock, audit>>
                 ELSE Returned(s, IF o = "skip" THEN "skip" ELSE "fail")
       ELSE /\ Leave(s)
            /\ UNCHANGED <<audit, obs>>
    /\ UNCHANGED <<store, last_processed_doc_id, initial_snapshot_received, running,
                   status, listener, pending>>

\* process_document without the destination write before the source update.
CalibratedSetSkipped(s) ==
    /\ handler[s].pc = "set"
    /\ handler' = [handler EXCEPT ![s].pc = "update"]
    /\ UNCHANGED <<store, globals, running, status, listener, pending, audit, obs>>

\* worker.py:135: calibrated_ref.set(merged)
CalibratedSet(s) ==
    /\ handler[s].pc = "set"
    /\ LET d == handler[s].doc_id IN
         /\ calibrated' = [calibrated EXCEPT ![d] = TRUE]
         /\ audit' = [audit EXCEPT ![d].writes = Bump(@)]
         /\ handler' = [handler EXCEPT ![s].pc = "update"]
    /\ UNCHANGED <<raw, globals, running, status, listener, pending, obs>>

\* worker.py:135 raises.
CalibratedSetFails(s) ==
    /\ handler[s].pc = "set"
    /\ Returned(s, "fail")
    /\ UNCHANGED <<store, last_processed_doc_id, initial_snapshot_received, running,
                   status, listener, pending, obs>>

\* worker.py:138-151: the raw document is marked processed (a change of the
\* watched collection) and process_document returns True.
RawUpdate(s) ==
    /\ handler[s].pc = "update"
    /\ LET d == handler[s].doc_id IN
         /\ raw' = [raw EXCEPT ![d].processed = TRUE]
         /\ audit' = [audit EXCEPT ![d].marks = Bump(@), ![d].oks = Bump(@),
                                   ![d].called = TRUE]
         /\ handler' = [handler EXCEPT ![s].pc = "advance"]
    /\ Notify
    /\ UNCHANGED <<calibrated, globals, running, status, listener, obs>>

\* A failed source update after which on_snapshot still advances the id.
RawUpdateFailsAdvancing(s) ==
    /\ handler[s].pc = "update"
    /\ Returned(s, "fail")
    /\ last_processed_doc_id' = handler[s].doc_id
    /\ UNCHANGED <<store, initial_snapshot_received, running,
                   status, listener, pending, obs>>

\* worker.py:138 raises.
RawUpdateFails(s) ==
    /\ handler[s].pc = "update"
    /\ Returned(s, "fail")
    /\ UNCHANGED <<store, last_processed_doc_id, initial_snapshot_received, running,
                   status, listener, pending, obs>>

\* worker.py:243-249: if success: last_processed_doc_id = doc_id; the callback ends.
Advance(s) ==
    /\ handler[s].pc = "advance"
    /\ last_processed_doc_id' = handler[s].doc_id
    /\ obs' = [obs EXCEPT !.unlocked =
                  IF processing_lock = s THEN @ ELSE @ \cup {"on_snapshot"}]
    /\ Leave(s)
    /\ UNCHANGED <<store, initial_snapshot_received, running, status,
                   listener, pending, audit>>

\* ------------------------------------------------------------------ specification
Next ==
    \/ \E d \in DocIds, t \in Timestamps, f \in BOOLEAN : Insert(d, t, f)
    \/ \E d \in DocIds : Touch(d)
    \/ Crash
    \/ start_worker
    \/ stop_worker
    \/ \E s \in Listeners : QueryBaseline(s)
    \/ \E s \in Listeners : SetBaseline(s)
    \/ \E s \in Listeners : Attach(s)
    \/ \E s \in Listeners : AttachFails(s)
    \/ \E s \in Listeners : Deliver(s)
    \/ \E s \in Listeners : SkipInitial(s)
    \/ \E s \in Listeners : AcquireLock(s)
    \/ \E s \in Listeners : QueryLatest(s)
    \/ \E s \in Listeners : Compare(s)
    \/ \E s \in Listeners : CalibratedSet(s)
    \/ \E s \in Listeners : CalibratedSetFails(s)
    \/ \E s \in Listeners : RawUpdate(s)
    \/ \E s \in Listeners : RawUpdateFails(s)
    \/ \E s \in Listeners : Advance(s)

Spec == Init /\ [][Next]_vars

\* ------------------------------------------------------------------ reordering scenario
\* One listener has attached on an empty collection and discarded the initial
\* snapshot; documents A (timestamp 1) and B (timestamp 2) have then been
\* inserted, in either order; the batch of the first insert has been delivered
\* and waits for the lock, the batch of the second is queued. The callback
\* only logs the events of a batch, so which batch names A and which names B
\* makes no difference to the state.
DocA == CHOOSE d \in DocIds : raw[d].ts = 1
DocB == CHOOSE d \in DocIds : raw[d].ts = 2

InitReorder ==
    /\ \E a \in 1..2, fa \in BOOLEAN, fb \in BOOLEAN :
         raw = [d \in DocIds |->
                  IF d = a THEN [ts |-> 1, fields |-> fa, processed |-> FALSE]
                  ELSE IF d = 3 - a THEN [ts |-> 2, fields |-> fb, processed |-> FALSE]
                  ELSE NoDoc]
    /\ calibrated = [d \in DocIds |-> FALSE]
    /\ last_processed_doc_id = None
    /\ initial_snapshot_received = TRUE
    /\ processing_lock = None
    /\ running = TRUE
    /\ status = "Worker started"
    /\ listener = [s \in Listeners |->
                     IF s = 1 THEN [pc |-> "attached", baseline_doc |-> None] ELSE Unborn]
    /\ pending = [s \in Listeners |-> IF s = 1 THEN 1 ELSE 0]
    /\ handler = [s \in Listeners |->
                    IF s = 1 THEN [IdleHandler EXCEPT !.pc = "wait_lock"] ELSE IdleHandler]
    /\ audit = [d \in DocIds |-> NoAudit]
    /\ obs = [run |-> [first |-> [s \in Listeners |->
                                    IF s = 1 THEN "discarded" ELSE "none"],
                       attached_once |-> TRUE, preexisting |-> {}, order |-> <<1>>],
              late_discard |-> FALSE, handed_pre |-> FALSE, out_of_order |-> FALSE,
              unlocked |-> {"on_snapshot_initial"}, crashes |-> 0, faults |-> TRUE]

NextReorder ==
    \/ \E s \in Listeners : Deliver(s)
    \/ \E s \in Listeners : AcquireLock(s)
    \/ \E s \in Listeners : QueryLatest(s)
    \/ \E s \in Listeners : Compare(s)
    \/ \E s \in Listeners : CalibratedSet(s)
    \/ \E s \in Listeners : CalibratedSetFails(s)
    \/ \E s \in Listeners : RawUpdate(s)
    \/ \E s \in Listeners : RawUpdateFails(s)
    \/ \E s \in Listeners : Advance(s)

SpecReorder == InitReorder /\ [][NextReorder]_vars

\* ------------------------------------------------------------------ fault-free runs
\* The runs of the liveness claim: store and model calls never raise, the
\* process is not restarted, start_worker is called and documents are
\* inserted only after that call; every step of the listener thread, every
\* delivery and every step of a callback that stays possible is taken.
InitLive ==
    /\ raw = [d \in DocIds |-> NoDoc]
    /\ calibrated = [d \in DocIds |-> FALSE]
    /\ last_processed_doc_id = None
    /\ initial_snapshot_received = FALSE
    /\ processing_lock = None
    /\ running = FALSE
    /\ status = "none"
    /\ listener = [s \in Listeners |-> Unborn]
    /\ pending = [s \in Listeners |-> 0]
    /\ handler = [s \in Listeners |-> IdleHandler]
    /\ audit = [d \in DocIds |-> NoAudit]
    /\ obs = [run |-> FreshRun, late_discard |-> FALSE, handed_pre |-> FALSE,
              out_of_order |-> FALSE, unlocked |-> {}, crashes |-> 0,
              faults |-> FALSE]

InsertAfterStart(d, t, f) == Lifecycle # "before_start" /\ Insert(d, t, f)

NextLive ==
    \/ \E d \in DocIds, t \in Timestamps, f \in BOOLEAN : InsertAfterStart(d, t, f)
    \/ start_worker
    \/ \E s \in Listeners : QueryBaseline(s)
    \/ \E s \in Listeners : SetBaseline(s)
    \/ \E s \in Listeners : Attach(s)
    \/ \E s \in Listeners : Deliver(s)
    \/ \E s \in Listeners : SkipInitial(s)
    \/ \E s \in Listeners : AcquireLock(s)
    \/ \E s \in Listeners : QueryLatest(s)
    \/ \E s \in Listeners : Compare(s)
    \/ \E s \in Listeners : CalibratedSet(s)
    \/ \E s \in Listeners : RawUpdate(s)
    \/ \E s \in Listeners : Advance(s)

FairLive ==
    \A s \in Listeners :
        /\ WF_vars(QueryBaseline(s)) /\ WF_vars(SetBaseline(s)) /\ WF_vars(Attach(s))
        /\ WF_vars(Deliver(s)) /\ WF_vars(SkipInitial(s)) /\ SF_vars(AcquireLock(s))
        /\ WF_vars(QueryLatest(s)) /\ WF_vars(Compare(s)) /\ WF_vars(CalibratedSet(s))
        /\ WF_vars(RawUpdate(s)) /\ WF_vars(Advance(s))

SpecLive == InitLive /\ [][NextLive]_vars /\ FairLive

\* ------------------------------------------------------------------ properties
InCriticalSection(s) == handler[s].pc \in {"query", "compare", "set", "update", "advance"}
\* Callback s is at worker.py:237 with a document that differs from
\* last_processed_doc_id: its next step calls process_document on d.
Calling(s, d) ==
    /\ handler[s].pc = "compare"
    /\ handler[s].doc_id = d
    /\ d # last_processed_doc_id

\* C1: at-most-once calibration. For every document id the CalibratedReading
\* is written at most once and processed=true is set at most once, over all
\* interleavings of notifications, start/stop, failures and restarts.
AtMostOnceCalibration ==
    \A d \in DocIds : audit[d].writes <= 1 /\ audit[d].marks <= 1

\* A calibrated and marked document is reported as latest by a further batch.
DuplicateNotificationSeen ==
    \E d \in DocIds, s \in Listeners :
        /\ audit[d].writes = 1 /\ audit[d].marks = 1
        /\ handler[s].pc = "compare" /\ handler[s].doc_id = d
        /\ last_processed_doc_id = d

\* C2 (as stated): the first batch of every subscription is discarded, and no
\* later batch is discarded as an initial snapshot.
InitialSnapshotDiscardedPerAttach ==
    /\ \A s \in Listeners : obs.run.first[s] # "handled"
    /\ ~obs.late_discard

\* Every delivered batch has been handled.
Quiescent ==
    \A s \in Listeners : pending[s] = 0 /\ handler[s].pc = "idle"

\* C3 (as stated): with A and B in the collection and two batches delivered,
\* exactly one call of process_document occurs and its target is B: a call
\* that begins targets B and is the first call on B.
ExactlyOneCallOnLatest ==
    [][\A s \in Listeners, d \in DocIds :
          (Calling(s, d) /\ handler'[s] # handler[s])
             => (d = DocB /\ ~audit[d].called)]_vars

\* C3 (amended): no call of process_document targets A, every call targets
\* B, and once a call on B has reported success no further call is made; a
\* call that reports failure is repeated by the next batch.
LatestWins ==
    [][\A s \in Listeners, d \in DocIds :
          (Calling(s, d) /\ handler'[s] # handler[s])
             => (d = DocB /\ audit[d].oks = 0)]_vars

\* Both batches are handled: B is calibrated and marked, A was never called.
ReorderHandled ==
    /\ Quiescent
    /\ calibrated[DocB] /\ raw[DocB].processed /\ last_processed_doc_id = DocB
    /\ audit[DocB].oks = 1 /\ ~audit[DocA].called /\ ~calibrated[DocA]

\* C4 (as stated): a document that was in the raw collection before the
\* subscription was attached is never handed to process_document.
BaselineRespected == ~obs.handed_pre

\* C5 (as stated): whenever process_document is called on an id it was called
\* on before, whatever the data, the call ends at once with success=false and
\* no store write, and a CalibratedReading exists at the id.
SecondCallAlwaysSkips ==
    [][\A s \in Listeners, d \in DocIds :
          (/\ Calling(s, d) /\ audit[d].called
           /\ handler'[s] # handler[s] /\ obs'.crashes = obs.crashes)
             => (handler'[s].pc = "idle" /\ calibrated'[d] /\ store' = store)]_vars

\* C5 (amended): once a call of process_document on id has reported success,
\* every later call on id ends at once with success=false, writes nothing to
\* the store, and exactly one CalibratedReading has been written at id.
SecondCallSkipsAfterSuccess ==
    [][\A s \in Listeners, d \in DocIds :
          (/\ Calling(s, d) /\ audit[d].oks >= 1
           /\ handler'[s] # handler[s] /\ obs'.crashes = obs.crashes)
             => (/\ handler'[s].pc = "idle"
                 /\ store' = store
                 /\ last_processed_doc_id' = last_processed_doc_id
                 /\ audit'[d].writes = 1 /\ audit'[d].oks = 1)]_vars

\* process_document is about to be called again on a document it succeeded on.
CalledAgainAfterSuccess ==
    \E s \in Listeners, d \in DocIds : Calling(s, d) /\ audit[d].oks >= 1

\* C6: a raw document missing one of N, P, K, pH, Conductivity never gets a
\* CalibratedReading and is never marked processed.
FieldValidation ==
    \A d \in DocIds :
        (Present(d) /\ ~raw[d].fields)
            => (~calibrated[d] /\ ~raw[d].processed
                /\ audit[d].writes = 0 /\ audit[d].marks = 0)

\* process_document has been called on a document that misses a channel.
InvalidDocumentTried ==
    \E d \in DocIds : Present(d) /\ ~raw[d].fields /\ audit[d].called

\* C7 (as stated): no write of last_processed_doc_id or of
\* initial_snapshot_received is made by a writer that does not hold the lock.
AllWritesUnderLock == obs.unlocked = {}

\* C7 (amended): the write of last_processed_doc_id in on_snapshot is made
\* while the callback holds the lock; the write of initial_snapshot_received
\* in on_snapshot and the baseline write in start_listener are made without it.
AdvanceUnderLock == "on_snapshot" \notin obs.unlocked

\* The three writes have all happened; only the last one was under the lock.
AllThreeWritesSeen ==
    /\ obs.unlocked = {"start_listener", "on_snapshot_initial"}
    /\ \E d \in DocIds : last_processed_doc_id = d /\ audit[d].oks >= 1
                           /\ obs.crashes = 0

\* C8: at most one on_snapshot invocation is inside the locked body, also
\* with more than one subscription attached.
MutualExclusion ==
    Cardinality({s \in Listeners : InCriticalSection(s)}) <= 1

\* One callback is inside the body while another one waits for the lock.
LockContended ==
    \E s, r \in Listeners :
        s # r /\ InCriticalSection(s) /\ handler[r].pc = "wait_lock"

\* C9 (as stated): callbacks enter the locked body in the order in which
\* their batches were delivered.
HandledInDeliveryOrder == ~obs.out_of_order

\* C10: start_worker. A listener thread is spawned only by a start from
\* Stopped, one at a time, and the flag is Running at once, before the thread
\* has queried the baseline or attached; the flag turns Running only so; a
\* start that returns "Worker already running" found Running and changed
\* nothing; the flag has two values.
StartContract ==
    [][/\ running \in BOOLEAN /\ running' \in BOOLEAN
       /\ (Spawned' # Spawned \/ (~running /\ running')) =>
             /\ ~running /\ running'
             /\ status' = "Worker started"
             /\ \E s \in Listeners \ Spawned :
                   /\ Spawned' = Spawned \cup {s}
                   /\ listener' = [listener EXCEPT ![s].pc = "baseline"]
             /\ pending' = pending
             /\ globals' = globals /\ store' = store /\ handler' = handler
       /\ (status' = "Worker already running" /\ status # status') =>
             /\ running /\ running'
             /\ listener' = listener /\ pending' = pending
             /\ globals' = globals /\ store' = store /\ handler' = handler]_vars

\* start_worker was called from Stopped and again before the thread moved on.
StartedThenAlreadyRunning ==
    /\ running /\ status = "Worker already running"
    /\ \E s \in Listeners : listener[s].pc = "baseline"

\* A step that is not the restart of the process.
NoCrash == obs'.crashes = obs.crashes

CollapseToLatest ==
    [][\A s \in Listeners :
          /\ (handler[s].pc = "query" /\ handler'[s].pc = "compare") =>
                LET d == handler'[s].doc_id IN
                  /\ Present(d)
                  /\ \A e \in PresentDocs : raw[e].ts <= raw[d].ts
          /\ (handler[s].pc \in {"compare", "set", "update", "advance"}
                 /\ handler'[s] # handler[s]) =>
                /\ handler'[s].pc \in {"set", "update", "advance", "idle"}
                /\ handler'[s].pc # "idle" => handler'[s].doc_id = handler[s].doc_id]_vars

\* The re-query has returned the newer of two documents in the collection.
LatestOfTwoQueried ==
    \E s \in Listeners, e \in DocIds :
        /\ handler[s].pc = "compare"
        /\ Present(e) /\ e # handler[s].doc_id
        /\ raw[e].ts < raw[handler[s].doc_id].ts

\* C13: apart from the baseline step of start_listener and a restart,
\* last_processed_doc_id changes only at the end of a callback whose
\* re-queried document was processed with success, and becomes that id; a
\* callback that ends in any other way (initial snapshot discarded, no
\* document, id equal, skip or failure) leaves it and the store unchanged.
AdvanceOnlyOnSuccess ==
    [][/\ (last_processed_doc_id' # last_processed_doc_id /\ NoCrash) =>
             \/ \E s \in Listeners :
                   /\ handler[s].pc = "advance" /\ handler'[s].pc = "idle"
                   /\ last_processed_doc_id' = handler[s].doc_id
                   /\ audit[handler[s].doc_id].oks >= 1
             \/ \E s \in Listeners :
                   /\ listener[s].pc = "set_baseline" /\ listener'[s].pc = "attach"
                   /\ last_processed_doc_id' = listener[s].baseline_doc
       /\ \A s \in Listeners :
             (handler[s].pc \in {"skip_initial", "query", "compare", "set", "update"}
                 /\ handler'[s].pc = "idle" /\ NoCrash)
               => (last_processed_doc_id' = last_processed_doc_id /\ store' = store)]_vars

\* A callback is about to replace last_processed_doc_id by another id.
AboutToAdvance ==
    \E s \in Listeners :
        /\ handler[s].pc = "advance"
        /\ last_processed_doc_id # None
        /\ last_processed_doc_id # handler[s].doc_id

\* C14: when processing of id stops between the destination write and the
\* source update (failed update or restart), the CalibratedReading is there
\* and the source is not marked; every later call on id ends at once with
\* success=false and no store write.
PartialWriteSkipped ==
    [][\A s \in Listeners, d \in DocIds :
          /\ (handler[s].pc = "update" /\ handler[s].doc_id = d
                 /\ handler'[s].pc = "idle")
               => (calibrated'[d] /\ ~raw'[d].processed)
          /\ (Calling(s, d) /\ calibrated[d] /\ ~raw[d].processed
                 /\ handler'[s] # handler[s] /\ NoCrash)
               => (/\ handler'[s].pc = "idle"
                   /\ store' = store
                   /\ last_processed_doc_id' = last_processed_doc_id)]_vars

\* process_document is about to be called on a document that has its
\* CalibratedReading but is not marked processed.
PartialWriteRetried ==
    \E s \in Listeners, d \in DocIds :
        Calling(s, d) /\ calibrated[d] /\ ~raw[d].processed /\ audit[d].writes = 1

\* C15: while a document that misses a channel is the re-queried latest and
\* differs from last_processed_doc_id, the batch calls process_document on
\* it, the call reports failure, the store is unchanged and
\* last_processed_doc_id is not advanced; the next batch does the same.
ValidationRetried ==
    [][\A s \in Listeners, d \in DocIds :
          (Calling(s, d) /\ ~handler[s].data.fields
              /\ handler'[s] # handler[s] /\ NoCrash)
            => (/\ handler'[s].pc = "idle"
                /\ audit'[d].called /\ audit'[d].oks = 0
                /\ store' = store
                /\ last_processed_doc_id' = last_processed_doc_id)]_vars

\* A document that misses a channel was tried and failed, and is tried again.
InvalidRetried ==
    \E s \in Listeners, d \in DocIds :
        Calling(s, d) /\ ~raw[d].fields /\ audit[d].called

\* C16: process_document has returned True only with the channels present
\* and both writes done; whatever fails, the callback ends and the lock is
\* free again: the lock is held exactly while a callback is inside the body.
ProcessOutcome ==
    /\ \A s \in Listeners :
          /\ handler[s].pc = "advance" =>
                LET d == handler[s].doc_id IN
                  raw[d].fields /\ calibrated[d] /\ raw[d].processed
          /\ processing_lock = s <=> InCriticalSection(s)
    /\ processing_lock = None <=> \A s \in Listeners : ~InCriticalSection(s)

\* After a failed call on a complete document a later batch is in the body.
LaterBatchAfterFailure ==
    \E s \in Listeners, d \in DocIds :
        /\ audit[d].called /\ audit[d].oks = 0
        /\ raw[d].fields /\ ~calibrated[d]
        /\ handler[s].pc = "query"

\* Threads of start_listener that have not ended.
Alive == {s \in Listeners :
             listener[s].pc \in {"baseline", "set_baseline", "attach", "attached"}}

\* C17 (as stated): at most one listener thread, and so at most one attached
\* subscription, exists at any time.
OneListener == Cardinality(Alive) <= 1

\* C18 (as stated): whenever the flag is Running a listener thread is alive.
RunningHasListener == running => Alive # {}

\* C19: a raw document marked processed has a CalibratedReading at its id.
ProcessedImpliesCalibrated ==
    \A d \in DocIds : raw[d].processed => calibrated[d]

\* One document is marked and calibrated; another one was left between the
\* two writes.
MarkedAndHalfDone ==
    \E d, e \in DocIds :
        /\ raw[d].processed /\ calibrated[d]
        /\ calibrated[e] /\ ~raw[e].processed
        /\ \A s \in Listeners : handler[s].pc = "idle"

\* Nothing is left to do for the listener threads and the callbacks: every
\* thread is attached, no batch is queued, no callback runs.
Settled ==
    /\ Alive # {} /\ \A s \in Alive : Attached(s)
    /\ Quiescent

\* C20 (as stated): in a fault-free run a complete Reading inserted after
\* start_worker that is the latest document is calibrated and marked once
\* every delivered batch has been handled.
NoStuckReading ==
    Settled =>
        \A d \in DocIds :
            (d = LatestDoc /\ raw[d].fields) => (calibrated[d] /\ raw[d].processed)

====
